---- MODULE Spec2Model ----
\* Model of bin/report_runtimes.py: discovery of catapult.log files, the
\* per-line step/runtime parser, the completeness check, the text summary
\* and the CSV export.
EXTENDS Integers, Sequences, FiniteSets, TLC

\* ---------------------------------------------------------------------
\* Bounds of the model
\* ---------------------------------------------------------------------
\* most catapult.log files a directory tree holds
MaxLogs == 2
\* most lines of a log file in a run over several logs
MaxLines == 2
\* most lines of the log file in a run over one log
MaxScan == 3
\* Python floats are binary64 (53-bit significand, round-half-even); the
\* model keeps the rounding rule and scales the significand to Precision
\* bits and the smallest quantum to 2^-FracBits seconds.
Precision == 4
FracBits == 3

\* ---------------------------------------------------------------------
\* Floating point
\* ---------------------------------------------------------------------
RECURSIVE Pow(_, _)
Pow(b, e) == IF e = 0 THEN 1 ELSE b * Pow(b, e - 1)

\* nearest integer to a/b, ties to even
RoundHalfEven(a, b) ==
    LET q == a \div b
        r == a % b
    IN  IF 2 * r > b \/ (2 * r = b /\ q % 2 = 1) THEN q + 1 ELSE q

RECURSIVE Exponent(_, _, _)
Exponent(a, b, k) ==
    IF a \div (b * Pow(2, k)) < Pow(2, Precision) THEN k
    ELSE Exponent(a, b, k + 1)

\* the float nearest to a/b quanta; a float is a natural number of quanta
\* of 2^-FracBits seconds with at most Precision significant bits
FloatRound(a, b) ==
    LET k == Exponent(a, b, 0)
    IN  RoundHalfEven(a, b * Pow(2, k)) * Pow(2, k)

\* x + y on floats
FloatAdd(x, y) == FloatRound(x + y, 1)

\* "%.2f" / round(x, 2): the float's value in hundredths, ties to even
TwoDecimals(x) == RoundHalfEven(x * 100, Pow(2, FracBits))

\* ---------------------------------------------------------------------
\* Lines of a log: a line is a sequence of whitespace-separated tokens,
\* a token is a piece of text or a run of the characters [0-9.]
\* ---------------------------------------------------------------------
Word(s) == [kind |-> "text", text |-> s, chars |-> <<>>]
Num(cs) == [kind |-> "num", text |-> "", chars |-> cs]

Marker == "Info: Completed transformation"

expected_steps ==
    << "analyze", "compile", "libraries", "assembly", "loops",
       "memories", "cluster", "architect", "allocate", "schedule",
       "dpfsm", "instance", "extract" >>

export_expected_steps ==
    << "analyze", "compile", "libraries", "assembly", "loops",
       "memories", "cluster", "architect", "allocate", "schedule",
       "dpfsm", "instance", "extract" >>

\* str.lower() on the vocabulary of the model
Lower(s) ==
    CASE s = "Info: Completed transformation" -> "info: completed transformation"
      [] s = "Compile" -> "compile"
      [] s = "ANALYZE" -> "analyze"
      [] s = "Elapsed Time" -> "elapsed time"
      [] s = "SECONDS" -> "seconds"
      [] OTHER -> s

\* the step names that occur as substrings of a lower-case text
StepsWithin(w) ==
    CASE w = "analyze_compile" -> {"analyze", "compile"}
      [] w \in {expected_steps[j] : j \in 1..Len(expected_steps)} -> {w}
      [] OTHER -> {}

\* "Info: Completed transformation" in line   (case-sensitive)
HasMarker(line) ==
    \E i \in 1..Len(line) : line[i].kind = "text" /\ line[i].text = Marker

\* step in line.lower()
StepInLine(step, line) ==
    \E i \in 1..Len(line) :
        line[i].kind = "text" /\ step \in StepsWithin(Lower(line[i].text))

Digits == {"0", "1", "2", "3", "4", "5", "6", "7", "8", "9"}
DigitVal(c) ==
    CASE c = "0" -> 0 [] c = "1" -> 1 [] c = "2" -> 2 [] c = "3" -> 3
      [] c = "4" -> 4 [] c = "5" -> 5 [] c = "6" -> 6 [] c = "7" -> 7
      [] c = "8" -> 8 [] c = "9" -> 9

None == <<>>
Some(v) == <<v>>

RECURSIVE DecimalValue(_)
\* the integer written by a sequence of digits ("" is 0)
DecimalValue(ds) ==
    IF ds = <<>> THEN 0
    ELSE 10 * DecimalValue(SubSeq(ds, 1, Len(ds) - 1)) + DigitVal(ds[Len(ds)])

\* float(s) for s matching [\d.]+ : ValueError (None) unless s holds at
\* least one digit and at most one point
Float(cs) ==
    LET dots == {i \in 1..Len(cs) : cs[i] = "."}
        ds == SelectSeq(cs, LAMBDA c : c \in Digits)
        frac == IF dots = {} THEN 0 ELSE Len(cs) - (CHOOSE i \in dots : TRUE)
    IN  IF Cardinality(dots) > 1 \/ ds = <<>> THEN None
        ELSE Some(FloatRound(DecimalValue(ds) * Pow(2, FracBits), Pow(10, frac)))

\* re.search(r"elapsed time\s+([\d.]+)\s+seconds?", line, re.IGNORECASE):
\* the positions where the pattern matches
MatchesAt(line) ==
    {i \in 1..(Len(line) - 2) :
        /\ line[i].kind = "text" /\ Lower(line[i].text) = "elapsed time"
        /\ line[i + 1].kind = "num"
        /\ line[i + 2].kind = "text"
        /\ Lower(line[i + 2].text) \in {"second", "seconds"}}

parse_runtime_from_line(line) ==
    IF MatchesAt(line) = {} THEN None
    ELSE LET i == CHOOSE m \in MatchesAt(line) :
                      \A n \in MatchesAt(line) : m <= n
         IN  Float(line[i + 1].chars)

\* ---------------------------------------------------------------------
\* dict: a sequence of key/value entries in insertion order, keys unique
\* ---------------------------------------------------------------------
Keys(d) == {d[i].key : i \in 1..Len(d)}
Get(d, k) == d[CHOOSE i \in 1..Len(d) : d[i].key = k].val

\* variant: d.setdefault(k, v), the first value of a key stays
SetItemKeepFirst(d, k, v) ==
    IF k \in Keys(d) THEN d ELSE Append(d, [key |-> k, val |-> v])

\* d[k] = v : a present key keeps its position, a new key goes last
SetItem(d, k, v) ==
    IF k \in Keys(d)
    THEN [i \in 1..Len(d) |->
             IF d[i].key = k THEN [key |-> k, val |-> v] ELSE d[i]]
    ELSE Append(d, [key |-> k, val |-> v])

\* ---------------------------------------------------------------------
\* parse_hls_runtimes: the body of the scan loop for one line
\* ---------------------------------------------------------------------
\* index of the first expected step found in the line, 0 when there is none
FirstStep(line) ==
    LET found == {j \in 1..Len(expected_steps) :
                      StepInLine(expected_steps[j], line)}
    IN  IF found = {} THEN 0
        ELSE CHOOSE j \in found : \A k \in found : j <= k

RECURSIVE SetFrom(_, _, _, _)
SetFrom(sr, line, runtime, j) ==
    IF j > Len(expected_steps) THEN sr
    ELSE SetFrom(IF StepInLine(expected_steps[j], line)
                 THEN SetItem(sr, expected_steps[j], runtime)
                 ELSE sr,
                 line, runtime, j + 1)

\* variant: the loop over the expected steps has no break
ScanLineNoBreak(sr, line) ==
    IF ~HasMarker(line) \/ parse_runtime_from_line(line) = None THEN sr
    ELSE SetFrom(sr, line, parse_runtime_from_line(line)[1], 1)

ScanLine(sr, line) ==
    IF ~HasMarker(line) THEN sr
    ELSE LET j == FirstStep(line)
         IN  IF j = 0 THEN sr
             ELSE LET runtime == parse_runtime_from_line(line)
                  IN  IF runtime = None THEN sr
                      ELSE SetItem(sr, expected_steps[j], runtime[1])

\* variant: the test of the comprehension is inverted
PresentSteps(sr) == SelectSeq(expected_steps, LAMBDA s : s \in Keys(sr))

\* missing_steps = [step for step in expected_steps if step not in step_runtimes]
MissingSteps(sr) == SelectSeq(expected_steps, LAMBDA s : s \notin Keys(sr))

\* ---------------------------------------------------------------------
\* Inputs
\* ---------------------------------------------------------------------
\* design names are strings, written as their sequences of code points
NameA == <<65>>
NameB == <<66>>
NameAB == <<65, 66>>
DesignNames == {NameA, NameB, NameAB}

\* the parent-directory names of the catapult.log files under the root,
\* in traversal order
Trees == UNION {[1..n -> DesignNames] : n \in 0..MaxLogs}

ElapsedOk(cs, unit) == <<Word("elapsed time"), Num(cs), Word(unit)>>

\* the lines of the logs in a run over several logs
InputLines ==
    { <<Word(Marker), Word("analyze")>> \o ElapsedOk(<<"3">>, "seconds"),
      <<Word(Marker), Word("compile")>> \o ElapsedOk(<<"2">>, "seconds"),
      <<Word(Marker), Word("compile")>>,
      <<Word("analyze")>> \o ElapsedOk(<<"2">>, "seconds") }

\* the lines of the log in a run over one log: the marker followed by
\* every run of step names and every tail, and lines without the marker
StepWords ==
    { <<>>, <<Word("analyze")>>, <<Word("Compile")>>, <<Word("extract")>>,
      <<Word("compile"), Word("ANALYZE")>>, <<Word("foo")>> }
Tails ==
    { <<>>,
      ElapsedOk(<<"2">>, "seconds"),
      ElapsedOk(<<"0", ".", "1">>, "second"),
      <<Word("Elapsed Time"), Num(<<"2">>), Word("SECONDS")>>,
      ElapsedOk(<<"1", ".", "2", ".", "3">>, "seconds"),
      ElapsedOk(<<"1", ".", "2", ".", "3">>, "seconds") \o ElapsedOk(<<"2">>, "seconds"),
      <<Word("elapsed time"), Word("foo")>> \o ElapsedOk(<<"2">>, "seconds"),
      <<Word("elapsed time"), Num(<<"2">>)>> }
MarkerLines == {<<Word(Marker)>> \o w \o t : w \in StepWords, t \in Tails}
OtherLines ==
    {h \o w \o ElapsedOk(<<"2">>, "seconds") :
        h \in {<<>>, <<Word("info: completed transformation")>>},
        w \in {<<Word("analyze")>>, <<Word("Compile")>>}}
AllLines == MarkerLines \cup OtherLines

\* ---------------------------------------------------------------------
\* State
\* ---------------------------------------------------------------------
VARIABLES
    hls_exists,       \* the root directory exists
    tree,             \* the catapult.log files under it
    csv_arg,          \* args.csv was given
    pc,               \* position of main
    logfiles,         \* main: the list find_catapult_logs returned
    idx,              \* main: number of logfiles already handled
    step_runtimes,    \* parse_hls_runtimes: the dict being filled
    nread,            \* parse_hls_runtimes: lines read from the open file
    line,             \* parse_hls_runtimes: the line read last
    design_runtimes,  \* main: design name -> step dict
    parsed,           \* the value each call of parse_hls_runtimes returned
    stdout,           \* everything printed
    csv_file          \* the export file

vars == << hls_exists, tree, csv_arg, pc, logfiles, idx, step_runtimes,
           nread, line, design_runtimes, parsed, stdout, csv_file >>

Msg(m, d, p, s, t) ==
    [msg |-> m, design |-> d, path |-> p, steps |-> s, total |-> t]
Text(m) == Msg(m, <<>>, 0, <<>>, 0)

NoDesigns == [d \in {} |-> <<>>]
NoFile == [exists |-> FALSE, header |-> <<>>, rows |-> <<>>]

Init ==
    /\ hls_exists \in BOOLEAN
    /\ tree \in Trees
    /\ (~hls_exists => tree = <<>>)
    /\ csv_arg \in BOOLEAN
    /\ pc = "start"
    /\ logfiles = <<>>
    /\ idx = 0
    /\ step_runtimes = <<>>
    /\ nread = 0
    /\ line = <<>>
    /\ design_runtimes = NoDesigns
    /\ parsed = <<>>
    /\ stdout = <<>>
    /\ csv_file = NoFile

\* ---------------------------------------------------------------------
\* find_catapult_logs and the head of main
\* ---------------------------------------------------------------------
find_catapult_logs ==
    IF ~hls_exists THEN <<>>
    ELSE [i \in 1..Len(tree) |-> <<tree[i], i>>]

\* variant: no return after the no-logs message
DiscoverNoReturn ==
    /\ pc = "start"
    /\ logfiles' = find_catapult_logs
    /\ stdout' = stdout \o <<Text("Searching for catapult.log files")>>
                   \o (IF ~hls_exists
                       THEN <<Text("Warning: HLS directory does not exist")>>
                       ELSE <<>>)
                   \o (IF logfiles' = <<>>
                       THEN <<Text("No catapult.log files found!")>>
                       ELSE <<>>)
                   \o <<Msg("Found catapult.log files", <<>>, 0, <<>>,
                            Len(logfiles'))>>
    /\ pc' = "loop"
    /\ UNCHANGED << hls_exists, tree, csv_arg, idx, step_runtimes, nread,
                    line, design_runtimes, parsed, csv_file >>

Discover ==
    /\ pc = "start"
    /\ logfiles' = find_catapult_logs
    /\ stdout' = stdout \o <<Text("Searching for catapult.log files")>>
                   \o (IF ~hls_exists
                       THEN <<Text("Warning: HLS directory does not exist")>>
                       ELSE <<>>)
                   \o (IF logfiles' = <<>>
                       THEN <<Text("No catapult.log files found!")>>
                       ELSE <<Msg("Found catapult.log files", <<>>, 0, <<>>,
                                  Len(logfiles'))>>)
    /\ pc' = IF logfiles' = <<>> THEN "done" ELSE "loop"
    /\ UNCHANGED << hls_exists, tree, csv_arg, idx, step_runtimes, nread,
                    line, design_runtimes, parsed, csv_file >>

\* ---------------------------------------------------------------------
\* main's loop over the logfiles and parse_hls_runtimes
\* ---------------------------------------------------------------------
design_name == logfiles[idx + 1][1]
logfile_path == logfiles[idx + 1][2]

\* variant: the assignment is not guarded by "if step_runtimes"
CollectAlways(dr, name, result) ==
    [d \in DOMAIN dr \cup {name} |-> IF d = name THEN result ELSE dr[d]]

RECURSIVE Update(_, _)
Update(d, e) ==
    IF e = <<>> THEN d ELSE Update(SetItem(d, e[1].key, e[1].val), Tail(e))

\* variant: the steps of a log are merged into the design's entry
CollectMerge(dr, name, result) ==
    IF result # <<>>
    THEN [d \in DOMAIN dr \cup {name} |->
             IF d # name THEN dr[d]
             ELSE IF name \in DOMAIN dr THEN Update(dr[name], result)
             ELSE result]
    ELSE dr

\* if step_runtimes: design_runtimes[design_name] = step_runtimes
Collect(dr, name, result) ==
    IF result # <<>>
    THEN [d \in DOMAIN dr \cup {name} |-> IF d = name THEN result ELSE dr[d]]
    ELSE dr

\* the call of parse_hls_runtimes returns and main takes the next logfile
Return(result, warnings) ==
    /\ parsed' = Append(parsed, result)
    /\ design_runtimes' = Collect(design_runtimes, design_name, result)
    /\ stdout' = stdout \o warnings
    /\ idx' = idx + 1
    /\ pc' = "loop"
    /\ step_runtimes' = <<>>
    /\ nread' = 0
    /\ line' = <<>>

OpenLog ==
    /\ pc = "loop"
    /\ idx < Len(logfiles)
    /\ stdout' = Append(stdout, Msg("Parsing", design_name, logfile_path, <<>>, 0))
    /\ pc' = "scan"
    /\ step_runtimes' = <<>>
    /\ nread' = 0
    /\ UNCHANGED << hls_exists, tree, csv_arg, logfiles, idx, line,
                    design_runtimes, parsed, csv_file >>

\* open() raises FileNotFoundError
OpenFails ==
    /\ pc = "loop"
    /\ idx < Len(logfiles)
    /\ Return(<<>>,
              << Msg("Parsing", design_name, logfile_path, <<>>, 0),
                 Msg("Warning: Could not read logfile", <<>>, logfile_path, <<>>, 0) >>)
    /\ UNCHANGED << hls_exists, tree, csv_arg, logfiles, csv_file >>

\* for line in f: one pass of the loop body
ReadFrom(lines, max) ==
    /\ pc = "scan"
    /\ nread < max
    /\ \E l \in lines :
          /\ line' = l
          /\ step_runtimes' = ScanLine(step_runtimes, l)
    /\ nread' = nread + 1
    /\ UNCHANGED << hls_exists, tree, csv_arg, pc, logfiles, idx,
                    design_runtimes, parsed, stdout, csv_file >>

\* variant: the handler returns what was scanned so far
ReadFailsPartial ==
    /\ pc = "scan"
    /\ Return(step_runtimes,
              << Msg("Warning: Error reading", <<>>, logfile_path, <<>>, 0) >>)
    /\ UNCHANGED << hls_exists, tree, csv_arg, logfiles, csv_file >>

\* reading raises any other exception, at any point of the scan
ReadFails ==
    /\ pc = "scan"
    /\ Return(<<>>,
              << Msg("Warning: Error reading", <<>>, logfile_path, <<>>, 0) >>)
    /\ UNCHANGED << hls_exists, tree, csv_arg, logfiles, csv_file >>

\* the file ends: the check for missing steps, then return step_runtimes
EndOfFile ==
    /\ pc = "scan"
    /\ LET missing_steps == MissingSteps(step_runtimes)
       IN  Return(step_runtimes,
                  IF missing_steps # <<>>
                  THEN << Msg("Warning: Design is missing steps",
                              tree[logfile_path], logfile_path, missing_steps, 0) >>
                  ELSE <<>>)
    /\ UNCHANGED << hls_exists, tree, csv_arg, logfiles, csv_file >>

LoopEnd ==
    /\ pc = "loop"
    /\ idx = Len(logfiles)
    /\ IF DOMAIN design_runtimes = {}
       THEN /\ stdout' = Append(stdout, Text("No valid runtime data found!"))
            /\ pc' = "done"
       ELSE /\ stdout' = stdout
            /\ pc' = "report"
    /\ UNCHANGED << hls_exists, tree, csv_arg, logfiles, idx, step_runtimes,
                    nread, line, design_runtimes, parsed, csv_file >>

\* ---------------------------------------------------------------------
\* generate_report and export_to_csv
\* ---------------------------------------------------------------------
RECURSIVE LexGreater(_, _)
\* variant: the comparison is reversed
LexGreater(a, b) ==
    IF b = <<>> THEN a # <<>>
    ELSE IF a = <<>> THEN FALSE
    ELSE IF a[1] # b[1] THEN a[1] > b[1]
    ELSE LexGreater(Tail(a), Tail(b))

RECURSIVE LexLess(_, _)
\* a < b on strings
LexLess(a, b) ==
    IF a = <<>> THEN b # <<>>
    ELSE IF b = <<>> THEN FALSE
    ELSE IF a[1] # b[1] THEN a[1] < b[1]
    ELSE LexLess(Tail(a), Tail(b))

RECURSIVE DescendingNames(_)
\* variant: sorted(..., reverse=True)
DescendingNames(S) ==
    IF S = {} THEN <<>>
    ELSE LET m == CHOOSE x \in S : \A y \in S \ {x} : LexLess(y, x)
         IN  <<m>> \o DescendingNames(S \ {m})

RECURSIVE SortedNames(_)
\* the keys of sorted(design_runtimes.items())
SortedNames(S) ==
    IF S = {} THEN <<>>
    ELSE LET m == CHOOSE x \in S : \A y \in S \ {x} : LexLess(x, y)
         IN  <<m>> \o SortedNames(S \ {m})

RECURSIVE SumValues(_, _)
\* sum(step_runtimes.values()): left to right in insertion order
SumValues(d, acc) ==
    IF d = <<>> THEN acc
    ELSE SumValues(Tail(d), FloatAdd(acc, d[1].val))

RECURSIVE ExportTotal(_, _, _)
\* total_runtime += step_runtimes[step], in the order of the expected steps
ExportTotal(d, j, acc) ==
    IF j > Len(export_expected_steps) THEN acc
    ELSE ExportTotal(d, j + 1,
                     IF export_expected_steps[j] \in Keys(d)
                     THEN FloatAdd(acc, Get(d, export_expected_steps[j]))
                     ELSE acc)

ReportLines(dr) ==
    LET names == SortedNames(DOMAIN dr)
    IN  [i \in 1..Len(names) |->
            Msg("line", names[i], 0, <<>>, TwoDecimals(SumValues(dr[names[i]], 0)))]

CsvRows(dr) ==
    LET names == SortedNames(DOMAIN dr)
    IN  [i \in 1..Len(names) |->
            [design |-> names[i],
             total_runtime |-> TwoDecimals(ExportTotal(dr[names[i]], 1, 0)),
             cells |-> [j \in 1..Len(export_expected_steps) |->
                           IF export_expected_steps[j] \in Keys(dr[names[i]])
                           THEN Some(Get(dr[names[i]], export_expected_steps[j]))
                           ELSE None]]]

GenerateReport ==
    /\ pc = "report"
    /\ stdout' = stdout \o << Text("HLS Runtime Summary:"), Text("----") >>
                        \o ReportLines(design_runtimes)
    /\ pc' = IF csv_arg THEN "export" ELSE "done"
    /\ UNCHANGED << hls_exists, tree, csv_arg, logfiles, idx, step_runtimes,
                    nread, line, design_runtimes, parsed, csv_file >>

ExportToCsv ==
    /\ pc = "export"
    /\ csv_file' = [exists |-> TRUE,
                    header |-> <<"design", "total_runtime">> \o export_expected_steps,
                    rows |-> CsvRows(design_runtimes)]
    /\ stdout' = Append(stdout, Text("CSV report exported"))
    /\ pc' = "done"
    /\ UNCHANGED << hls_exists, tree, csv_arg, logfiles, idx, step_runtimes,
                    nread, line, design_runtimes, parsed >>

\* open(csv_path, 'w') raises
ExportFails ==
    /\ pc = "export"
    /\ stdout' = Append(stdout, Text("Error writing CSV file"))
    /\ pc' = "done"
    /\ UNCHANGED << hls_exists, tree, csv_arg, logfiles, idx, step_runtimes,
                    nread, line, design_runtimes, parsed, csv_file >>

ReadLine == ReadFrom(InputLines, MaxLines)
ReadAnyLine == ReadFrom(AllLines, MaxScan)

Next ==
    \/ Discover
    \/ OpenLog
    \/ OpenFails
    \/ ReadLine
    \/ ReadFails
    \/ EndOfFile
    \/ LoopEnd
    \/ GenerateReport
    \/ ExportToCsv
    \/ ExportFails

Spec == Init /\ [][Next]_vars

\* a run over a tree that holds one log, its lines drawn from AllLines
InitOneLog ==
    /\ Init
    /\ hls_exists
    /\ tree = <<NameA>>

NextOneLog ==
    \/ Discover
    \/ OpenLog
    \/ OpenFails
    \/ ReadAnyLine
    \/ ReadFails
    \/ EndOfFile
    \/ LoopEnd
    \/ GenerateReport
    \/ ExportToCsv
    \/ ExportFails

SpecOneLog == InitOneLog /\ [][NextOneLog]_vars

\* a run over one log written by one synthesis run: the steps complete in
\* the order of the flow, and the completion line of any of them may be
\* absent from the log
StepLine(j) ==
    <<Word(Marker), Word(expected_steps[j])>> \o ElapsedOk(<<"2">>, "seconds")

ReadFlowLine ==
    /\ pc = "scan"
    /\ nread < Len(expected_steps)
    /\ line' \in {StepLine(nread + 1), <<Word("foo")>>}
    /\ step_runtimes' = ScanLine(step_runtimes, line')
    /\ nread' = nread + 1
    /\ UNCHANGED << hls_exists, tree, csv_arg, pc, logfiles, idx,
                    design_runtimes, parsed, stdout, csv_file >>

NextFlowLog ==
    \/ Discover
    \/ OpenLog
    \/ ReadFlowLine
    \/ EndOfFile
    \/ LoopEnd
    \/ GenerateReport
    \/ ExportToCsv

SpecFlowLog == InitOneLog /\ [][NextFlowLog]_vars

\* ---------------------------------------------------------------------
\* Properties
\* ---------------------------------------------------------------------
ExpectedSet == {expected_steps[j] : j \in 1..Len(expected_steps)}
ReportLinesOf(out) == SelectSeq(out, LAMBDA m : m.msg = "line")
Printed(m) == \E i \in 1..Len(stdout) : stdout[i].msg = m
\* the line is a marker line and expected step j is the first one in it
Marks(l, j) ==
    /\ HasMarker(l)
    /\ StepInLine(expected_steps[j], l)
    /\ \A k \in 1..(j - 1) : ~StepInLine(expected_steps[k], l)
\* one more line of the open log was scanned
ReadStep == pc = "scan" /\ nread' = nread + 1
\* the entry of step s differs between the dicts d and e
EntryDiffers(d, e, s) ==
    \/ (s \in Keys(d)) # (s \in Keys(e))
    \/ (s \in Keys(d) /\ s \in Keys(e) /\ Get(d, s) # Get(e, s))
\* reading log i failed
ReadFailed(i) ==
    \E k \in 1..Len(stdout) :
        /\ stdout[k].msg \in {"Warning: Could not read logfile",
                              "Warning: Error reading"}
        /\ stdout[k].path = i

\* C1: for every design, the total of the text summary and the
\* total_runtime of the export are the same two-decimal number.
C1_TotalsAgree ==
    csv_file.exists =>
        LET lines == ReportLinesOf(stdout)
        IN  /\ Len(lines) = Len(csv_file.rows)
            /\ \A i \in 1..Len(lines) :
                  /\ lines[i].design = csv_file.rows[i].design
                  /\ lines[i].total = csv_file.rows[i].total_runtime

\* C2 (as stated): once a step has a value, every later line marking that
\* step makes the stored value the one of that line.
C2_LatestMarkingLineWins ==
    [][ReadStep =>
         \A j \in 1..Len(expected_steps) :
            (Marks(line', j) /\ expected_steps[j] \in Keys(step_runtimes)) =>
                /\ expected_steps[j] \in Keys(step_runtimes')
                /\ parse_runtime_from_line(line')
                     = Some(Get(step_runtimes', expected_steps[j]))]_vars

\* C2 (amended): a step has at most one runtime, and the stored value is
\* the one of the latest line that is attributed to the step and carries
\* an extractable runtime: such a line sets the step's value, and any
\* other line leaves the step's entry as it was.
C2_LatestRecordedLineWins ==
    /\ [](Cardinality(Keys(step_runtimes)) = Len(step_runtimes))
    /\ [][ReadStep =>
            \A j \in 1..Len(expected_steps) :
               LET s == expected_steps[j]
                   rt == parse_runtime_from_line(line')
               IN  IF Marks(line', j) /\ rt # None
                   THEN s \in Keys(step_runtimes')
                        /\ Get(step_runtimes', s) = rt[1]
                   ELSE ~EntryDiffers(step_runtimes, step_runtimes', s)]_vars

\* analyze was stored before extract and the third line stored it again
C2_Witness ==
    /\ pc = "scan"
    /\ nread = 3
    /\ Len(step_runtimes) = 2
    /\ step_runtimes[1].key = "analyze"
    /\ step_runtimes[2].key = "extract"
    /\ Marks(line, 1)
    /\ parse_runtime_from_line(line) = Some(step_runtimes[1].val)
    /\ step_runtimes[1].val # step_runtimes[2].val

\* C3: the summary lines and the export rows are in strictly ascending
\* order of design name, one per design of the mapping.
C3_SortedOnePerDesign ==
    LET lines == ReportLinesOf(stdout)
        rows == csv_file.rows
    IN  /\ Printed("HLS Runtime Summary:") =>
              /\ Len(lines) = Cardinality(DOMAIN design_runtimes)
              /\ {lines[i].design : i \in 1..Len(lines)} = DOMAIN design_runtimes
              /\ \A i, j \in 1..Len(lines) :
                    i < j => LexLess(lines[i].design, lines[j].design)
        /\ csv_file.exists =>
              /\ Len(rows) = Cardinality(DOMAIN design_runtimes)
              /\ {rows[i].design : i \in 1..Len(rows)} = DOMAIN design_runtimes
              /\ \A i, j \in 1..Len(rows) :
                    i < j => LexLess(rows[i].design, rows[j].design)

\* the logs were found in the order B, AB and are listed as AB, B
C3_Witness ==
    /\ pc = "done"
    /\ tree = <<NameB, NameAB>>
    /\ csv_file.exists
    /\ Len(csv_file.rows) = 2
    /\ csv_file.rows[1].design = NameAB
    /\ csv_file.rows[2].design = NameB
    /\ Len(ReportLinesOf(stdout)) = 2
    /\ ReportLinesOf(stdout)[1].design = NameAB

\* the summary of designs A (total 5.00) and B (total 2.00)
C4_Scenario ==
    LET lines == ReportLinesOf(stdout)
    IN  /\ Len(lines) = 2
        /\ \E i \in 1..2 : lines[i].design = NameA /\ lines[i].total = 500
        /\ \E i \in 1..2 : lines[i].design = NameB /\ lines[i].total = 200

\* C4 (as stated): the summary of A (5.00) and B (2.00) lists B before A.
C4_BBeforeA ==
    C4_Scenario =>
        /\ ReportLinesOf(stdout)[1].design = NameB
        /\ ReportLinesOf(stdout)[2].design = NameA

\* C4 (amended): the summary of A (5.00) and B (2.00) lists A before B,
\* each on its own line.
C4_ABeforeB ==
    C4_Scenario =>
        /\ ReportLinesOf(stdout)[1].design = NameA
        /\ ReportLinesOf(stdout)[2].design = NameB

C4_Witness ==
    /\ pc = "done"
    /\ tree = <<NameB, NameA>>
    /\ C4_Scenario

\* C5: a log whose reading failed returned the empty mapping with a
\* warning; every discovered log is parsed before main goes on; every
\* design some log of which yielded data is in the mapping with the
\* values of one of its own logs, and is in the summary and the export.
C5_BadLogNeverAborts ==
    /\ \A i \in 1..Len(parsed) : ReadFailed(i) => parsed[i] = <<>>
    /\ pc \in {"report", "export", "done"} => Len(parsed) = Len(logfiles)
    /\ idx = Len(parsed)
    /\ \A i \in 1..Len(parsed) :
          parsed[i] # <<>> =>
              /\ tree[i] \in DOMAIN design_runtimes
              /\ \E k \in 1..Len(parsed) :
                    tree[k] = tree[i] /\ design_runtimes[tree[i]] = parsed[k]
              /\ (pc = "done" =>
                     \E k \in 1..Len(stdout) :
                         stdout[k].msg = "line" /\ stdout[k].design = tree[i])
              /\ (csv_file.exists =>
                     \E k \in 1..Len(csv_file.rows) :
                         csv_file.rows[k].design = tree[i])

\* the first log failed while it was read, the second one is reported
C5_Witness ==
    /\ pc = "done"
    /\ Len(parsed) = 2
    /\ tree[1] # tree[2]
    /\ \E k \in 1..Len(stdout) :
          stdout[k].msg = "Warning: Error reading" /\ stdout[k].path = 1
    /\ parsed[2] # <<>>
    /\ csv_file.exists
    /\ csv_file.rows[1].design = tree[2]

\* C6: every design of design_runtimes has a non-empty step mapping whose
\* keys are expected steps; no line and no row is without any value.
C6_NoEmptyDesign ==
    /\ \A d \in DOMAIN design_runtimes :
          /\ design_runtimes[d] # <<>>
          /\ Keys(design_runtimes[d]) \subseteq ExpectedSet
    /\ \A k \in 1..Len(csv_file.rows) :
          \E j \in 1..Len(export_expected_steps) :
              csv_file.rows[k].cells[j] # None
    /\ Len(ReportLinesOf(stdout)) <= Cardinality(DOMAIN design_runtimes)

\* the first log was read to its end without a recognized step and its
\* design is not reported, the second one is
C6_Witness ==
    /\ pc = "done"
    /\ Len(parsed) = 2
    /\ parsed[1] = <<>>
    /\ ~ReadFailed(1)
    /\ tree[1] \notin DOMAIN design_runtimes
    /\ tree[2] \in DOMAIN design_runtimes
    /\ Len(ReportLinesOf(stdout)) = 1

\* C7: without a root directory the run finds no logs, prints the no-logs
\* message and ends without summary and without export file; so does a
\* run whose logs yield no data; the export file exists only after the
\* summary of a non-empty mapping was printed.
C7_NoDataNoOutput ==
    /\ (~hls_exists /\ pc # "start") =>
          /\ logfiles = <<>>
          /\ pc = "done"
          /\ Printed("No catapult.log files found!")
          /\ ~Printed("HLS Runtime Summary:")
          /\ ~csv_file.exists
    /\ (pc = "done" /\ DOMAIN design_runtimes = {}) =>
          /\ ~Printed("HLS Runtime Summary:")
          /\ ~csv_file.exists
          /\ (logfiles # <<>> => Printed("No valid runtime data found!"))
    /\ csv_file.exists =>
          /\ DOMAIN design_runtimes # {}
          /\ \E i, j \in 1..Len(stdout) :
                /\ i < j
                /\ stdout[i].msg = "HLS Runtime Summary:"
                /\ stdout[j].msg = "CSV report exported"

\* a run with a csv path and without root directory has ended
C7_Witness ==
    /\ pc = "done"
    /\ csv_arg
    /\ ~hls_exists
    /\ Printed("No catapult.log files found!")
    /\ ~csv_file.exists

\* C8: when the scan of a log ends, the steps of the expected list that
\* are not keys of the mapping are computed in the order of the list, a
\* missing-steps warning naming the design is printed exactly when there
\* is such a step, and the mapping is returned as it was scanned.
C8_CompletenessCheck ==
    [][EndOfFile =>
         LET missing == {s \in ExpectedSet : s \notin Keys(step_runtimes)}
             new == SubSeq(stdout', Len(stdout) + 1, Len(stdout'))
         IN  /\ parsed' = Append(parsed, step_runtimes)
             /\ (missing = {} => new = <<>>)
             /\ (missing # {} =>
                    /\ Len(new) = 1
                    /\ new[1].msg = "Warning: Design is missing steps"
                    /\ new[1].design = tree[idx + 1]
                    /\ Len(new[1].steps) = Cardinality(missing)
                    /\ {new[1].steps[i] : i \in 1..Len(new[1].steps)} = missing
                    /\ \A i, k \in 1..Len(new[1].steps) :
                          i < k =>
                             \E a, b \in 1..Len(expected_steps) :
                                 /\ a < b
                                 /\ expected_steps[a] = new[1].steps[i]
                                 /\ expected_steps[b] = new[1].steps[k])]_vars

\* a log with the lines of analyze and compile only was checked: the
\* warning names the eleven other steps and the mapping is returned
C8_Witness ==
    /\ Len(parsed) = 1
    /\ Keys(parsed[1]) = {"analyze", "compile"}
    /\ \E k \in 1..Len(stdout) :
          /\ stdout[k].msg = "Warning: Design is missing steps"
          /\ Len(stdout[k].steps) = 11
          /\ stdout[k].steps[1] = "libraries"

\* C9: a scanned line changes at most one entry; a line without the
\* marker, a marker line without a step name and a marker line without
\* an extractable runtime change nothing; any other line sets the entry of
\* the first expected step that occurs in it, and only that entry.
C9_OneEntryPerLine ==
    [][ReadStep =>
         LET rt == parse_runtime_from_line(line')
             steps == ExpectedSet \cup Keys(step_runtimes) \cup Keys(step_runtimes')
         IN  /\ Cardinality({s \in steps :
                    EntryDiffers(step_runtimes, step_runtimes', s)}) <= 1
             /\ ~HasMarker(line') => step_runtimes' = step_runtimes
             /\ (\A j \in 1..Len(expected_steps) : ~Marks(line', j))
                    => step_runtimes' = step_runtimes
             /\ rt = None => step_runtimes' = step_runtimes
             /\ \A j \in 1..Len(expected_steps) :
                   (Marks(line', j) /\ rt # None) =>
                       /\ expected_steps[j] \in Keys(step_runtimes')
                       /\ Get(step_runtimes', expected_steps[j]) = rt[1]
                       /\ \A s \in steps \ {expected_steps[j]} :
                             ~EntryDiffers(step_runtimes, step_runtimes', s)]_vars

\* a marker line naming compile and ANALYZE was attributed to analyze
C9_Witness ==
    /\ pc = "scan"
    /\ nread = 1
    /\ HasMarker(line)
    /\ StepInLine("compile", line)
    /\ StepInLine("analyze", line)
    /\ Keys(step_runtimes) = {"analyze"}

\* C10: the entry of a design is the mapping parsed from the last log of
\* that name whose parse was not empty, whole; a design without such a
\* log has no entry.
C10_LastNonEmptyLogWins ==
    \A d \in DesignNames :
        LET logs == {i \in 1..Len(parsed) : tree[i] = d /\ parsed[i] # <<>>}
        IN  IF logs = {} THEN d \notin DOMAIN design_runtimes
            ELSE /\ d \in DOMAIN design_runtimes
                 /\ design_runtimes[d] =
                       parsed[CHOOSE i \in logs : \A k \in logs : k <= i]

\* two logs of the same design yielded different steps: the entry is the
\* second mapping alone, and one line is printed for two logs with data
C10_Witness ==
    /\ pc = "done"
    /\ Len(parsed) = 2
    /\ tree[1] = tree[2]
    /\ Keys(parsed[1]) = {"analyze"}
    /\ Keys(parsed[2]) = {"compile"}
    /\ Keys(design_runtimes[tree[1]]) = {"compile"}
    /\ Len(ReportLinesOf(stdout)) = 1

====
